---- MODULE Spec2Model ----
(***************************************************************************)
(* char-load: a generic service that, on the command                       *)
(* {"char_load": "start"}, drives GPIO pin "11" of the configured board    *)
(* high, sleeps 60 seconds and drives it low.                              *)
(*                                                                         *)
(* The repository holds two copies of package charunit:                    *)
(*   "go"     src/unnamed/part_000 lines   1-191: DoCommand launches the   *)
(*            pulse with `go bioCharProcess(s)`; errors are logged.        *)
(*   "inline" src/unnamed/part_000 lines 193-363: DoCommand runs the pulse *)
(*            itself and returns its errors.                               *)
(* The variable impl says which copy is built; every operation is modelled *)
(* for both.  Spec is the service with its pulses; SpecCalls is the same   *)
(* machine that also keeps, in last, the arguments and the return of the   *)
(* latest call that returned at once; SpecDispatch is SpecCalls with       *)
(* DoCommand as the only call, on the board bound at construction.         *)
(***************************************************************************)
EXTENDS Integers, Sequences, FiniteSets, TLC

\* ------------------------------------------------------------------ bounds

\* Number of pulses (start commands) one run of the model may launch.
MaxPulses == 2

\* ------------------------------------------------------- the environment

Impls == {"go", "inline"}

\* A nil board.Board interface value (the zero value of field b).
NilBoard == "<nil>"

\* The boards of the machine and how pin "11" of each behaves (a mock board):
\*   none    lookup and every write succeed
\*   nopin   GPIOPinByName("11") returns an error
\*   sethigh pin.Set(true) returns an error
\*   setlow  pin.Set(false) returns an error
Boards == {"b1", "b2", "b3", "b4"}

Fault(board) ==
    CASE board = "b1" -> "none"
      [] board = "b2" -> "nopin"
      [] board = "b3" -> "sethigh"
      [] board = "b4" -> "setlow"

\* resource.Dependencies handed to the constructor and to Reconfigure.
Deps == Boards

Names == {"foo"}

\* rawConf: whether resource.NativeConfig[*Config] succeeds on it, its
\* ResourceName() and the board attribute.
Confs ==
    {c \in [native : BOOLEAN, name : Names, board : Boards \cup {"ghost"}] :
        ~c.native => c.board = "b1"}

Paths == {"services.0"}

\* ------------------------------------------------------------ Go values

\* interface{} values of a command map: dynamic type and fmt's %v text.
StrV(s) == [t |-> "string", v |-> s]
IntV(s) == [t |-> "int", v |-> s]

Keys == {"char_load", "x", "y"}
Values == {StrV("start"), StrV("stop"), IntV("1")}

\* The command maps tried: the empty map, char_load alone with each value,
\* char_load beside the unknown key x, and maps of unknown keys only.
Cmds ==
    {c \in UNION {[D -> Values] : D \in SUBSET Keys} :
        /\ \A k \in DOMAIN c \ {"char_load"} : c[k] = IntV("1")
        /\ "y" \in DOMAIN c => DOMAIN c = {"x", "y"}}

EmptyCmd == CHOOSE c \in Cmds : DOMAIN c = {}

\* fmt's %v of a value.
Sprint(value) == value.v

\* fmt's %v of a map: its entries in sorted key order.
SortedKeys == <<"char_load", "x", "y">>
FmtMap(cmd) ==
    LET ks == SelectSeq(SortedKeys, LAMBDA k : k \in DOMAIN cmd)
    IN  [i \in 1..Len(ks) |-> <<ks[i], Sprint(cmd[ks[i]])>>]

\* error values: the format string and its formatted arguments.
Err(msg, a1, a2, m) == [msg |-> msg, a1 |-> a1, a2 |-> a2, cmd |-> m]
NoErr == Err("<nil>", "", "", <<>>)

ErrUnknownValue(key, value) ==
    Err("unknown DoCommand value for %v = %v", key, Sprint(value), <<>>)
ErrUnknownKey(key) == Err("unknown DoCommand key = %v ", key, "", <<>>)
ErrUnknownMap(cmd) == Err("unknown DoCommand command map: %v", "", "", FmtMap(cmd))
ErrFieldRequired(path, field) ==
    Err("NewConfigValidationFieldRequiredError", path, field, <<>>)
ErrNativeConfig == Err("NativeConfig", "", "", <<>>)
ErrNoBoardGo(board) ==
    Err("no source camera for transform pipeline  (%s): %w", board, "", <<>>)
ErrNoBoardInline(board, nm) == Err("unable to get board %v for %v", board, nm, <<>>)
ErrBoardNil == Err("s.b (Board component) is nil inside DoCommand", "", "", <<>>)
ErrPinByName(board) == Err("GPIOPinByName", board, "11", <<>>)
ErrPinSet(board, high) == Err("pin.Set", board, IF high THEN "true" ELSE "false", <<>>)
\* runtime panics
PanicTypeAssert(value) ==
    Err("interface conversion: interface {} is not string", value.t, "", <<>>)
PanicNilDeref == Err("nil pointer dereference", "", "", <<>>)

\* ---------------------------------------------------------------- state

VARIABLES
    impl,        \* which copy of the package is built
    b,           \* s.b: the bound board, or NilBoard
    name,        \* s.name
    cancelled,   \* cancelFunc has been called (cancelCtx is done)
    pc,          \* pc[p]: where pulse p is
    pin,         \* pin[p]: the board whose pin "11" pulse p resolved
    ret,         \* ret[p]: the return of the DoCommand call that started p
    perr,        \* perr[p]: the error pulse p ended with (logged or returned)
    writes,      \* writes[board]: the pin.Set calls made on pin "11" of board
    closeRet,    \* what the latest Close returned
    trace,       \* whether last is kept
    hist,        \* whether heldAtRebind is kept
    last,        \* the last call made, and what it returned at once
    heldAtClose, \* the pulses that were in their hold when Close was called
    heldAtRebind \* the pulses between set-high and set-low at a rebind

vars == <<impl, b, name, cancelled, pc, pin, ret, perr, writes, closeRet, trace, hist,
          last, heldAtClose, heldAtRebind>>

Pulses == 1..MaxPulses

\* DoCommand's return: not called, still running, returned (nil, err), panicked.
NotCalled == [st |-> "notcalled", err |-> NoErr]
Running == [st |-> "running", err |-> NoErr]
Returned(e) == [st |-> "returned", err |-> e]
Panicked(e) == [st |-> "panicked", err |-> e]

NoDeps == [isnil |-> TRUE, elems |-> <<>>]
Slice(s) == [isnil |-> FALSE, elems |-> s]

\* A call and its outcome: op, the command map and the key the loop met, the
\* config board or path argument, the outcome, the pulses it started, and
\* Validate's dependency list.
CallRec(op, cmd, key, arg, out, started, deps) ==
    [op |-> op, cmd |-> cmd, key |-> key, arg |-> arg, st |-> out.st,
     err |-> out.err, started |-> started, deps |-> deps]

NoCall == CallRec("none", EmptyCmd, "", "", NotCalled, 0, NoDeps)

Call(op, cmd, key, arg, out, started, deps) ==
    IF trace THEN CallRec(op, cmd, key, arg, out, started, deps) ELSE NoCall

\* ----------------------------------------------------------- Validate

\* Config.Validate of each copy: the implicit dependencies and the error.
ValidateGo(board, path) ==
    LET deps == <<board>>
    IN  IF board = ""
        THEN [deps |-> NoDeps, err |-> ErrFieldRequired(path, "board")]
        ELSE [deps |-> Slice(deps), err |-> NoErr]

ValidateInline(board, path) ==
    IF board = ""
    THEN [deps |-> NoDeps, err |-> ErrFieldRequired(path, "board")]
    ELSE [deps |-> Slice(<<>>), err |-> NoErr]

ConfigValidate(i, board, path) ==
    IF i = "go" THEN ValidateGo(board, path) ELSE ValidateInline(board, path)

ValidateBoards == {"", "b1", "b2"}

Validate(board, path) ==
    /\ LET r == ConfigValidate(impl, board, path)
       IN  last' = Call("Validate", EmptyCmd, "", board, Returned(r.err), 0, r.deps)
    /\ UNCHANGED <<impl, b, name, cancelled, pc, pin, ret, perr, writes, closeRet, trace, hist, heldAtClose, heldAtRebind>>

\* ------------------------------------------- construction, Reconfigure

\* board.FromDependencies: the named board, or the zero value and an error.
FromDependencies(deps, board) ==
    IF board \in deps THEN [b |-> board, found |-> TRUE]
    ELSE [b |-> NilBoard, found |-> FALSE]

\* Reconfigure of each copy on a service whose fields are s = [b, name].
ReconfigureGo(s, deps, conf) ==
    IF ~conf.native THEN [s |-> s, err |-> ErrNativeConfig]
    ELSE LET r == FromDependencies(deps, conf.board)
         IN  IF ~r.found THEN [s |-> s, err |-> ErrNoBoardGo(conf.board)]
             ELSE [s |-> [s EXCEPT !.b = r.b], err |-> NoErr]

ReconfigureInline(s, deps, conf) ==
    IF ~conf.native THEN [s |-> s, err |-> ErrNativeConfig]
    ELSE LET r == FromDependencies(deps, conf.board)
             t == [s EXCEPT !.name = conf.name, !.b = r.b]
         IN  IF ~r.found THEN [s |-> t, err |-> ErrNoBoardInline(conf.board, conf.name)]
             ELSE [s |-> t, err |-> NoErr]

ReconfigureOp(i, s, deps, conf) ==
    IF i = "go" THEN ReconfigureGo(s, deps, conf) ELSE ReconfigureInline(s, deps, conf)

\* NewCharUnitLoad of each copy: the new service, or an error and no service.
\* The inline copy receives the converted config and never looks up the board.
NewCharUnitLoad(i, deps, nm, conf) ==
    LET s0 == [b |-> NilBoard, name |-> nm]
    IN  IF i = "go"
        THEN IF ~conf.native THEN [ok |-> FALSE, s |-> s0, err |-> ErrNativeConfig]
             ELSE LET r == ReconfigureGo(s0, deps, conf)
                  IN  [ok |-> r.err = NoErr, s |-> r.s, err |-> r.err]
        ELSE [ok |-> TRUE, s |-> s0, err |-> NoErr]

Constructed ==
    /\ impl \in Impls
    /\ \E conf \in Confs, nm \in Names :
          LET r == NewCharUnitLoad(impl, Deps, nm, conf)
          IN  /\ r.ok
              /\ (impl = "inline" => conf.native)
              /\ b = r.s.b
              /\ name = r.s.name
    /\ cancelled = FALSE
    /\ pc = [p \in Pulses |-> "Idle"]
    /\ pin = [p \in Pulses |-> NilBoard]
    /\ ret = [p \in Pulses |-> NotCalled]
    /\ perr = [p \in Pulses |-> NoErr]
    /\ writes = [x \in Boards |-> <<>>]
    /\ closeRet = NotCalled
    /\ last = NoCall
    /\ heldAtClose = {}
    /\ heldAtRebind = {}

Init == Constructed /\ trace = FALSE /\ hist = FALSE

InitCalls == Constructed /\ trace = TRUE /\ hist = FALSE

InitRebind == Constructed /\ trace = FALSE /\ hist = TRUE

Reconfigure(conf) ==
    /\ LET r == ReconfigureOp(impl, [b |-> b, name |-> name], Deps, conf)
       IN  /\ b' = r.s.b
           /\ name' = r.s.name
           /\ last' = Call("Reconfigure", EmptyCmd, "", conf.board, Returned(r.err), 0, NoDeps)
           /\ heldAtRebind' = heldAtRebind \cup
                 {p \in Pulses : /\ hist
                                 /\ pc[p] \in {"Holding", "SettingLow"}
                                 /\ r.s.b \notin {NilBoard, pin[p]}}
    /\ UNCHANGED <<impl, cancelled, pc, pin, ret, perr, writes, closeRet, trace, hist, heldAtClose>>

\* Close: cancelFunc(), return nil.
Close ==
    /\ cancelled' = TRUE
    /\ heldAtClose' = heldAtClose \cup {p \in Pulses : pc[p] = "Holding"}
    /\ closeRet' = Returned(NoErr)
    /\ last' = Call("Close", EmptyCmd, "", "", Returned(NoErr), 0, NoDeps)
    /\ UNCHANGED <<impl, b, name, pc, pin, ret, perr, writes, trace, hist, heldAtRebind>>

\* ------------------------------------------------------------ DoCommand

\* (mutation of DoCommandIter: the outer switch has no default branch and an
\* unknown key ends the call with nil, nil)
DoCommandIterNoDefault(key, value) ==
    IF key = "char_load"
    THEN IF value.t # "string" THEN [act |-> "panic", err |-> PanicTypeAssert(value)]
         ELSE IF value.v = "start" THEN [act |-> "start", err |-> NoErr]
         ELSE [act |-> "return", err |-> ErrUnknownValue(key, value)]
    ELSE [act |-> "return", err |-> NoErr]

\* The body of DoCommand's loop for the first entry the range yields: every
\* branch returns, so no second entry is ever visited.
DoCommandIter(key, value) ==
    IF key = "char_load"
    THEN IF value.t # "string" THEN [act |-> "panic", err |-> PanicTypeAssert(value)]
         ELSE IF value.v = "start" THEN [act |-> "start", err |-> NoErr]
         ELSE [act |-> "return", err |-> ErrUnknownValue(key, value)]
    ELSE [act |-> "return", err |-> ErrUnknownKey(key)]

\* (mutation of DoCommandAfterLoop: the function ends with return nil, nil)
DoCommandAfterLoopNil(cmd) == Returned(NoErr)

\* DoCommand's return after the loop, reached when the range yields nothing.
DoCommandAfterLoop(cmd) == Returned(ErrUnknownMap(cmd))

\* The slot the next pulse takes.
NextPulse == 1 + Cardinality({p \in Pulses : pc[p] # "Idle"})

\* case "start" of the go copy: go bioCharProcess(s); return nil, nil.
StartGo(cmd, key) ==
    /\ NextPulse \in Pulses
    /\ pc' = [pc EXCEPT ![NextPulse] = "CheckBoard"]
    /\ ret' = [ret EXCEPT ![NextPulse] = Returned(NoErr)]
    /\ last' = Call("DoCommand", cmd, key, "", Returned(NoErr), 1, NoDeps)
    /\ UNCHANGED <<pin, perr, writes>>

\* case "start" of the inline copy: the caller itself goes on to the lookup.
StartInline(cmd, key) ==
    /\ NextPulse \in Pulses
    /\ pc' = [pc EXCEPT ![NextPulse] = "Lookup"]
    /\ ret' = [ret EXCEPT ![NextPulse] = Running]
    /\ last' = Call("DoCommand", cmd, key, "", Running, 1, NoDeps)
    /\ UNCHANGED <<pin, perr, writes>>

Start(cmd, key) == IF impl = "go" THEN StartGo(cmd, key) ELSE StartInline(cmd, key)


\* A dispatch that launches the pulse on the key "char_load" before it looks
\* at the sub-command.
DoCommandLaunchesFirst(cmd) ==
    /\ IF DOMAIN cmd = {}
       THEN /\ last' = Call("DoCommand", cmd, "", "", DoCommandAfterLoop(cmd), 0, NoDeps)
            /\ UNCHANGED <<pc, pin, ret, perr, writes>>
       ELSE \E key \in DOMAIN cmd :
              LET o == DoCommandIter(key, cmd[key])
              IN  CASE o.act = "start" -> Start(cmd, key)
                    [] o.act = "panic" ->
                         /\ last' = Call("DoCommand", cmd, key, "", Panicked(o.err), 0, NoDeps)
                         /\ UNCHANGED <<pc, pin, ret, perr, writes>>
                    [] OTHER ->
                         /\ last' = Call("DoCommand", cmd, key, "", Returned(o.err), 0, NoDeps)
                         /\ IF key = "char_load" /\ NextPulse \in Pulses
                            THEN /\ pc' = [pc EXCEPT ![NextPulse] = "CheckBoard"]
                                 /\ ret' = [ret EXCEPT ![NextPulse] = Returned(o.err)]
                                 /\ UNCHANGED <<pin, perr, writes>>
                            ELSE UNCHANGED <<pc, pin, ret, perr, writes>>
    /\ UNCHANGED <<impl, b, name, cancelled, closeRet, trace, hist, heldAtClose, heldAtRebind>>

DoCommand(cmd) ==
    /\ IF DOMAIN cmd = {}
       THEN /\ last' = Call("DoCommand", cmd, "", "", DoCommandAfterLoop(cmd), 0, NoDeps)
            /\ UNCHANGED <<pc, pin, ret, perr, writes>>
       ELSE \E key \in DOMAIN cmd :
              LET o == DoCommandIter(key, cmd[key])
              IN  CASE o.act = "start" -> Start(cmd, key)
                    [] o.act = "panic" ->
                         /\ last' = Call("DoCommand", cmd, key, "", Panicked(o.err), 0, NoDeps)
                         /\ UNCHANGED <<pc, pin, ret, perr, writes>>
                    [] OTHER ->
                         /\ last' = Call("DoCommand", cmd, key, "", Returned(o.err), 0, NoDeps)
                         /\ UNCHANGED <<pc, pin, ret, perr, writes>>
    /\ UNCHANGED <<impl, b, name, cancelled, closeRet, trace, hist, heldAtClose, heldAtRebind>>

\* ------------------------------------------------------------ the pulse

\* A pulse whose error reaches the caller of DoCommand in either copy.
FailReturns(p, e) ==
    /\ pc' = [pc EXCEPT ![p] = "Failed"]
    /\ perr' = [perr EXCEPT ![p] = e]
    /\ ret' = [ret EXCEPT ![p] = Returned(e)]

\* The pulse ends with error e: the go copy logs it and returns, the inline
\* copy returns it from DoCommand.
Fail(p, e) ==
    /\ pc' = [pc EXCEPT ![p] = "Failed"]
    /\ perr' = [perr EXCEPT ![p] = e]
    /\ ret' = IF impl = "go" THEN ret ELSE [ret EXCEPT ![p] = Returned(e)]

\* A panic in the pulse: in the inline copy it unwinds DoCommand.
Panic(p, e) ==
    /\ pc' = [pc EXCEPT ![p] = "Failed"]
    /\ perr' = [perr EXCEPT ![p] = e]
    /\ ret' = IF impl = "go" THEN ret ELSE [ret EXCEPT ![p] = Panicked(e)]

\* The pulse ends without error.
Finish(p) ==
    /\ pc' = [pc EXCEPT ![p] = "Done"]
    /\ ret' = IF impl = "go" THEN ret ELSE [ret EXCEPT ![p] = Returned(NoErr)]
    /\ UNCHANGED perr

\* pin.Set on a mock pin: whether the write succeeds.
SetOk(board, high) ==
    ~ \/ (Fault(board) = "sethigh" /\ high)
      \/ (Fault(board) = "setlow" /\ ~high)

PinSet(p, high) == Append(writes[pin[p]], [by |-> p, val |-> high, ok |-> SetOk(pin[p], high)])

\* bioCharProcess: if s.b == nil { log; return }
CheckBoard(p) ==
    /\ pc[p] = "CheckBoard"
    /\ IF b = NilBoard
       THEN Fail(p, ErrBoardNil)
       ELSE /\ pc' = [pc EXCEPT ![p] = "Lookup"]
            /\ UNCHANGED <<ret, perr>>
    /\ UNCHANGED <<impl, b, name, cancelled, pin, writes, closeRet, trace, hist, last, heldAtClose, heldAtRebind>>

\* pin, err := s.b.GPIOPinByName("11")
GPIOPinByName(p) ==
    /\ pc[p] = "Lookup"
    /\ IF b = NilBoard
       THEN Panic(p, PanicNilDeref) /\ UNCHANGED pin
       ELSE IF Fault(b) = "nopin"
       THEN Fail(p, ErrPinByName(b)) /\ UNCHANGED pin
       ELSE /\ pin' = [pin EXCEPT ![p] = b]
            /\ pc' = [pc EXCEPT ![p] = "SettingHigh"]
            /\ UNCHANGED <<ret, perr>>
    /\ UNCHANGED <<impl, b, name, cancelled, writes, closeRet, trace, hist, last, heldAtClose, heldAtRebind>>

\* err = pin.Set(context.Background(), true, nil)
SetHigh(p) ==
    /\ pc[p] = "SettingHigh"
    /\ writes' = [writes EXCEPT ![pin[p]] = PinSet(p, TRUE)]
    /\ IF SetOk(pin[p], TRUE)
       THEN /\ pc' = [pc EXCEPT ![p] = "Holding"]
            /\ UNCHANGED <<ret, perr>>
       ELSE Fail(p, ErrPinSet(pin[p], TRUE))
    /\ UNCHANGED <<impl, b, name, cancelled, pin, closeRet, trace, hist, last, heldAtClose, heldAtRebind>>

\* A hold that ends the pulse without the set-low.
SleepReturns(p) ==
    /\ pc[p] = "Holding"
    /\ Finish(p)
    /\ UNCHANGED <<impl, b, name, cancelled, pin, writes, closeRet, trace, hist, last, heldAtClose, heldAtRebind>>

\* time.Sleep(60 * time.Second) returns.
Sleep(p) ==
    /\ pc[p] = "Holding"
    /\ pc' = [pc EXCEPT ![p] = "SettingLow"]
    /\ UNCHANGED <<impl, b, name, cancelled, pin, ret, perr, writes, closeRet, trace, hist, last, heldAtClose, heldAtRebind>>

\* (mutation of SetLow: the second write sets the pin to high, as its
\* comment in the source says)
SetLowWritesHigh(p) ==
    /\ pc[p] = "SettingLow"
    /\ writes' = [writes EXCEPT ![pin[p]] = PinSet(p, TRUE)]
    /\ IF SetOk(pin[p], TRUE)
       THEN Finish(p)
       ELSE Fail(p, ErrPinSet(pin[p], TRUE))
    /\ UNCHANGED <<impl, b, name, cancelled, pin, closeRet, trace, hist, last, heldAtClose, heldAtRebind>>

\* A set-low that resolves the pin again through the board bound now.
SetLowOnBound(p) ==
    LET x == IF b = NilBoard THEN pin[p] ELSE b
    IN  /\ pc[p] = "SettingLow"
        /\ writes' = [writes EXCEPT
              ![x] = Append(@, [by |-> p, val |-> FALSE, ok |-> SetOk(x, FALSE)])]
        /\ IF SetOk(x, FALSE) THEN Finish(p) ELSE Fail(p, ErrPinSet(x, FALSE))
        /\ UNCHANGED <<impl, b, name, cancelled, pin, closeRet, trace, hist, last, heldAtClose, heldAtRebind>>

\* err = pin.Set(context.Background(), false, nil)
SetLow(p) ==
    /\ pc[p] = "SettingLow"
    /\ writes' = [writes EXCEPT ![pin[p]] = PinSet(p, FALSE)]
    /\ IF SetOk(pin[p], FALSE)
       THEN Finish(p)
       ELSE Fail(p, ErrPinSet(pin[p], FALSE))
    /\ UNCHANGED <<impl, b, name, cancelled, pin, closeRet, trace, hist, last, heldAtClose, heldAtRebind>>

\* ------------------------------------------------------- specification

Next ==
    \/ \E cmd \in Cmds : DoCommand(cmd)
    \/ \E p \in Pulses : CheckBoard(p)
    \/ \E p \in Pulses : GPIOPinByName(p)
    \/ \E p \in Pulses : SetHigh(p)
    \/ \E p \in Pulses : Sleep(p)
    \/ \E p \in Pulses : SetLow(p)
    \/ \E conf \in Confs : Reconfigure(conf)
    \/ Close
    \/ \E board \in ValidateBoards, path \in Paths : Validate(board, path)

Spec == Init /\ [][Next]_vars

SpecCalls == InitCalls /\ [][Next]_vars

\* DoCommand and the pulses it starts.
NextDispatch ==
    \/ \E cmd \in Cmds : DoCommand(cmd)
    \/ \E p \in Pulses : CheckBoard(p)
    \/ \E p \in Pulses : GPIOPinByName(p)
    \/ \E p \in Pulses : SetHigh(p)
    \/ \E p \in Pulses : Sleep(p)
    \/ \E p \in Pulses : SetLow(p)

SpecDispatch == InitCalls /\ [][NextDispatch]_vars

\* The pulses and the Reconfigure calls that rebind the board under them.
NextRebind ==
    \/ \E cmd \in Cmds : DoCommand(cmd)
    \/ \E p \in Pulses : CheckBoard(p)
    \/ \E p \in Pulses : GPIOPinByName(p)
    \/ \E p \in Pulses : SetHigh(p)
    \/ \E p \in Pulses : Sleep(p)
    \/ \E p \in Pulses : SetLow(p)
    \/ \E conf \in Confs : Reconfigure(conf)

SpecRebind == InitRebind /\ [][NextRebind]_vars

\* One step of pulse p, whichever it is at.
PulseStep(p) ==
    \/ CheckBoard(p)
    \/ GPIOPinByName(p)
    \/ SetHigh(p)
    \/ Sleep(p)
    \/ SetLow(p)

\* The scheduler runs every runnable goroutine and time.Sleep returns: a
\* pulse that can take a step takes it.
Fairness == \A p \in Pulses : WF_vars(PulseStep(p))

\* Starts, pulses and rebinds under that scheduler.
SpecFair == Init /\ [][NextRebind]_vars /\ Fairness

\* ------------------------------------------------------------ observers

\* The pin.Set calls pulse p has made, in order.
WritesBy(p) ==
    IF pin[p] = NilBoard THEN <<>>
    ELSE SelectSeq(writes[pin[p]], LAMBDA w : w.by = p)

\* No board other than the one p resolved holds a write of p.
WritesOnlyOwnPin(p) ==
    \A x \in Boards : x # pin[p] => \A i \in 1..Len(writes[x]) : writes[x][i].by # p

\* The value pin "11" of board holds: the last write that succeeded.
PinLevel(board) ==
    LET ok == SelectSeq(writes[board], LAMBDA w : w.ok)
    IN  IF ok = <<>> THEN "unset"
        ELSE IF ok[Len(ok)].val THEN "high" ELSE "low"

High(p) == [by |-> p, val |-> TRUE, ok |-> TRUE]
Low(p) == [by |-> p, val |-> FALSE, ok |-> TRUE]

\* The pulses launched so far, and those in a pulse sequence now.
Started == {p \in Pulses : pc[p] # "Idle"}
Active == {p \in Pulses : pc[p] \in {"SettingHigh", "Holding", "SettingLow"}}

\* The state of the pulse state machine Idle -> SettingHigh -> Holding ->
\* SettingLow -> Idle that pulse p is in.
PulseState(p) ==
    CASE pc[p] \in {"Idle", "Done"} -> "Idle"
      [] pc[p] \in {"CheckBoard", "Lookup", "SettingHigh"} -> "SettingHigh"
      [] OTHER -> pc[p]

LastIsDoCommand == last.op = "DoCommand"

\* ------------------------------------------------------------------ C1

\* C1 (as stated): every command map without the key "char_load" makes
\* DoCommand return the unknown-key error.
C1_Original ==
    (LastIsDoCommand /\ "char_load" \notin DOMAIN last.cmd)
        => /\ last.st = "returned"
           /\ \E k \in Keys : last.err = ErrUnknownKey(k)

\* C1 (amended): every non-empty command map without the key "char_load" makes
\* DoCommand return the unknown-key error carrying a key of the map (the one
\* the loop met) and start no pulse; the empty map gets the command-map error.
C1_UnknownKey ==
    (LastIsDoCommand /\ "char_load" \notin DOMAIN last.cmd)
        => /\ last.st = "returned"
           /\ last.started = 0
           /\ IF DOMAIN last.cmd = {}
              THEN last.err = ErrUnknownMap(last.cmd)
              ELSE /\ last.key \in DOMAIN last.cmd
                   /\ last.err = ErrUnknownKey(last.key)

C1_Witness ==
    /\ LastIsDoCommand
    /\ DOMAIN last.cmd = {"x", "y"}
    /\ last.err = ErrUnknownKey("y")

\* ------------------------------------------------------------------ C2

\* C2: every command map whose "char_load" value is not the string "start"
\* makes DoCommand return the unknown-value error carrying key and value,
\* whatever other keys the map holds and whatever the type of the value.
C2_UnknownValue ==
    (/\ LastIsDoCommand
     /\ "char_load" \in DOMAIN last.cmd
     /\ last.cmd["char_load"] # StrV("start"))
        => /\ last.st = "returned"
           /\ last.err = ErrUnknownValue("char_load", last.cmd["char_load"])

\* ------------------------------------------------------------------ C3

\* C3: DoCommand on the empty map returns the command-map error, which is
\* neither nil nor an unknown-key nor an unknown-value error, and starts no
\* pulse.
C3_EmptyCommand ==
    (LastIsDoCommand /\ DOMAIN last.cmd = {})
        => /\ last.st = "returned"
           /\ last.err = ErrUnknownMap(last.cmd)
           /\ last.err # NoErr
           /\ \A k \in Keys : last.err # ErrUnknownKey(k)
           /\ \A k \in Keys, v \in Values : last.err # ErrUnknownValue(k, v)
           /\ last.started = 0

C3_Witness ==
    /\ LastIsDoCommand
    /\ DOMAIN last.cmd = {}
    /\ last.err.msg = "unknown DoCommand command map: %v"
    /\ \E p \in Pulses : pc[p] = "Holding"

\* ------------------------------------------------------------------ C4

\* The pulse p is the only one ever launched and the pin it resolved is healthy.
SoleHealthy(p) == Started = {p} /\ pin[p] # NilBoard /\ Fault(pin[p]) = "none"

\* The writes a lone pulse on a healthy pin has made at each point: none
\* before the set-high, high alone through the hold, high then low at the end.
C4_Writes ==
    \A p \in Pulses : SoleHealthy(p) =>
        /\ pc[p] \in {"SettingHigh", "Holding", "SettingLow", "Done"}
        /\ WritesOnlyOwnPin(p)
        /\ pc[p] = "SettingHigh" =>
              writes[pin[p]] = <<>> /\ PinLevel(pin[p]) = "unset"
        /\ pc[p] \in {"Holding", "SettingLow"} =>
              writes[pin[p]] = <<High(p)>> /\ PinLevel(pin[p]) = "high"
        /\ pc[p] = "Done" =>
              writes[pin[p]] = <<High(p), Low(p)>> /\ PinLevel(pin[p]) = "low"

\* A pulse that does not fail moves along Idle -> SettingHigh -> Holding ->
\* SettingLow -> Idle, one state at a time.
C4_Step ==
    \A p \in Pulses : (PulseState(p)' # PulseState(p) /\ pc'[p] # "Failed") =>
        <<PulseState(p), PulseState(p)'>> \in
            {<<"Idle", "SettingHigh">>, <<"SettingHigh", "Holding">>,
             <<"Holding", "SettingLow">>, <<"SettingLow", "Idle">>}

\* C4: a single start on a healthy board makes exactly two writes on the pin,
\* high and then low, along Idle -> SettingHigh -> Holding -> SettingLow ->
\* Idle; the pin is high throughout the hold.
C4_SinglePulse == [](C4_Writes) /\ [][C4_Step]_vars

C4_Witness ==
    \E p \in Pulses :
        /\ SoleHealthy(p)
        /\ pc[p] = "Done"
        /\ writes[pin[p]] = <<High(p), Low(p)>>

\* ------------------------------------------------------------------ C5

\* The pulse p ended on a failed pin lookup.
LookupFailed(p) == \E x \in Boards : perr[p] = ErrPinByName(x)

\* C5: a pulse whose pin lookup fails returns the lookup error to its caller
\* and makes no write on any pin.
C5_PinNotFound ==
    \A p \in Pulses : LookupFailed(p) =>
        /\ ret[p] = Returned(perr[p])
        /\ \A x \in Boards : \A i \in 1..Len(writes[x]) : writes[x][i].by # p

\* ------------------------------------------------------------------ C6

\* The first write (set high) of pulse p failed.
SetHighFailed(p) ==
    \E x \in Boards : \E i \in 1..Len(writes[x]) :
        writes[x][i] = [by |-> p, val |-> TRUE, ok |-> FALSE]

\* C6: a pulse whose set-high fails returns that write's error and aborts: it
\* is never in the hold or at the set-low, and the failed write is its only one.
C6_SetHighFails ==
    \A p \in Pulses : SetHighFailed(p) =>
        /\ ret[p] = Returned(ErrPinSet(pin[p], TRUE))
        /\ pc[p] = "Failed"
        /\ WritesBy(p) = <<[by |-> p, val |-> TRUE, ok |-> FALSE]>>
        /\ WritesOnlyOwnPin(p)

\* ------------------------------------------------------------------ C7

\* C7: at most one pulse sequence is active at any time.
C7_OnePulse == Cardinality(Active) <= 1

\* ------------------------------------------------------------------ C8

\* C8: a pulse that was in its hold when Close was called makes no further
\* write (its set-high stays its only write, and the pin keeps the last value
\* written before Close), and Close returns nil.
C8_CloseCancels ==
    /\ closeRet \in {NotCalled, Returned(NoErr)}
    /\ \A p \in heldAtClose : WritesBy(p) = <<High(p)>>

\* ------------------------------------------------------------------ C9

\* C9: DoCommand does not wait for the pulse it starts: no call is still
\* running while its pulse holds or is about to write low.
C9_ReturnsAtOnce ==
    \A p \in Pulses : pc[p] \in {"Holding", "SettingLow"} => ret[p] = Returned(NoErr)

\* ----------------------------------------------------------------- C10

\* C10: Validate returns the required-field error and no dependency list for
\* an empty board, and nil with the list of exactly the board otherwise.
C10_Validate ==
    last.op = "Validate" =>
        IF last.arg = ""
        THEN /\ \E path \in Paths : last.err = ErrFieldRequired(path, "board")
             /\ last.deps = NoDeps
        ELSE /\ last.err = NoErr
             /\ last.deps = Slice(<<last.arg>>)

\* ----------------------------------------------------------------- C11

\* The pulse p ran as a detached task (go bioCharProcess) and ended in error.
DetachedFailed(p) == impl = "go" /\ pc[p] = "Failed"

\* C11: the DoCommand call that launched a detached pulse has returned nil,
\* and that value stays nil whatever the pulse does afterwards: a nil board, a
\* failed pin lookup, a failed set-high or a failed set-low ends the pulse
\* with its error logged only.
C11_ErrorsNotReturned ==
    \A p \in Pulses : (impl = "go" /\ pc[p] # "Idle") =>
        /\ ret[p] = Returned(NoErr)
        /\ pc[p] = "Failed" =>
              /\ perr[p] # NoErr
              /\ perr[p] \in {ErrBoardNil} \cup {ErrPinByName(x) : x \in Boards}
                            \cup {ErrPinSet(x, h) : x \in Boards, h \in BOOLEAN}

C11_Witness ==
    \E p, q \in Pulses :
        /\ DetachedFailed(p) /\ \E x \in Boards : perr[p] = ErrPinSet(x, FALSE)
        /\ DetachedFailed(q) /\ \E x \in Boards : perr[q] = ErrPinByName(x)
        /\ ret[p] = Returned(NoErr) /\ ret[q] = Returned(NoErr)

\* ----------------------------------------------------------------- C12

\* The Reconfigure call with conf fails in the current state.
ReconfigureFails(conf) ==
    ReconfigureOp(impl, [b |-> b, name |-> name], Deps, conf).err # NoErr

\* C12: a Reconfigure call that fails (the config conversion fails, or the
\* named board is not among the dependencies) leaves the service as it was:
\* the board bound before the call is the board bound after it.
C12_FailedReconfigure ==
    [][\A conf \in Confs :
          (Reconfigure(conf) /\ ReconfigureFails(conf)) => (b' = b /\ name' = name)]_vars

\* ----------------------------------------------------------------- C13

\* C13: the service NewCharUnitLoad returned always holds a board, whatever
\* Reconfigure, DoCommand and Close calls followed, and no pulse has met a
\* nil board: neither the nil check nor a call on the nil board ended one.
C13_BoardNonNil ==
    /\ b # NilBoard
    /\ \A p \in Pulses : perr[p] \notin {ErrBoardNil, PanicNilDeref}

\* ----------------------------------------------------------------- C14

\* C14: a DoCommand call with the same command map as the call before it
\* returns the same result and starts as many pulses as that call did.
C14_MapDecides ==
    [][(/\ last.op = "DoCommand"
        /\ last'.op = "DoCommand"
        /\ last'.cmd = last.cmd)
          => /\ last'.st = last.st
             /\ last'.err = last.err
             /\ last'.started = last.started]_vars

\* ----------------------------------------------------------------- C15

\* Every write of a pulse is on the pin it resolved; a pulse that was between
\* its set-high and its set-low when Reconfigure bound another board has its
\* high alone on that pin through the hold, and its high then its low on it
\* once it has ended.
C15_Writes ==
    /\ \A p \in Pulses : WritesOnlyOwnPin(p)
    /\ \A p \in heldAtRebind :
          /\ pin[p] # NilBoard
          /\ pc[p] \in {"Holding", "SettingLow", "Done", "Failed"}
          /\ pc[p] \in {"Holding", "SettingLow"} => WritesBy(p) = <<High(p)>>
          /\ pc[p] = "Done" => WritesBy(p) = <<High(p), Low(p)>>
          /\ pc[p] = "Failed" =>
                WritesBy(p) = <<High(p), [by |-> p, val |-> FALSE, ok |-> FALSE]>>

\* The pin handle a pulse resolved is never replaced.
C15_Step == \A p \in Pulses : pin[p] # NilBoard => pin'[p] = pin[p]

\* C15: a pulse writes low to the pin handle it wrote high to; a Reconfigure
\* that binds another board between the two writes does not redirect the
\* set-low, and no pin of the new board is written by that pulse.
C15_SamePinHandle == [](C15_Writes) /\ [][C15_Step]_vars

C15_Witness ==
    \E p \in heldAtRebind :
        /\ pc[p] = "Done"
        /\ b \notin {NilBoard, pin[p]}
        /\ WritesBy(p) = <<High(p), Low(p)>>
        /\ \A i \in 1..Len(writes[b]) : writes[b][i].by # p

\* ----------------------------------------------------------------- C16

\* C16: while a pulse on a healthy pin is in its hold (it has written high
\* and not yet written low), the last value written to that pin is high,
\* however many pulses have been started.
C16_HighWhileHolding ==
    \A p \in Pulses :
        (pc[p] \in {"Holding", "SettingLow"} /\ Fault(pin[p]) = "none")
            => PinLevel(pin[p]) = "high"

\* ----------------------------------------------------------------- C17

\* Every pulse launched has ended, and at least one was launched.
AllFinished == Started # {} /\ \A p \in Started : pc[p] \in {"Done", "Failed"}

\* A pulse all of whose pin operations succeed does not end in error, and
\* once all pulses have ended a healthy pin that was written holds low.
C17_Rest ==
    /\ \A p \in Pulses :
          (pin[p] # NilBoard /\ Fault(pin[p]) = "none") => pc[p] # "Failed"
    /\ AllFinished =>
          \A x \in Boards : (Fault(x) = "none" /\ writes[x] # <<>>) => PinLevel(x) = "low"

\* C17: under fair scheduling every pulse a start command launched ends,
\* without error when its pin operations succeed, and once all of them have
\* ended the pin's last written value is low, for any number and
\* interleaving of start commands.
C17_PulsesFinish ==
    /\ \A p \in Pulses : (pc[p] # "Idle") ~> (pc[p] \in {"Done", "Failed"})
    /\ [](C17_Rest)

C17_Witness ==
    /\ AllFinished
    /\ Cardinality(Started) >= 2
    /\ \A p \in Started : pc[p] = "Done" /\ pin[p] = "b1"
    /\ Len(writes["b1"]) >= 4
    /\ writes["b1"][1].val /\ writes["b1"][2].val
    /\ PinLevel("b1") = "low"

\* ----------------------------------------------------------------- C18

\* The call made in this step is DoCommand(cmd) and it returned an error from
\* the dispatch: unknown key, unknown sub-command value or empty map.
ReturnsError(cmd) ==
    /\ DoCommand(cmd)
    /\ last'.op = "DoCommand"
    /\ last'.cmd = cmd
    /\ last'.st = "returned"
    /\ last'.err # NoErr

\* C18: a DoCommand call that returns an error starts no pulse and writes no
\* pin: the pulses in flight, the pins they hold and the writes made are the
\* same after the call as before it.
C18_ErrorNoEffect ==
    [][\A cmd \in Cmds : ReturnsError(cmd) =>
          /\ last'.started = 0
          /\ UNCHANGED <<pc, pin, writes, ret, perr>>]_vars

C18_Witness ==
    /\ LastIsDoCommand
    /\ last.err = ErrUnknownValue("char_load", StrV("stop"))
    /\ \E p \in Pulses : pc[p] = "SettingLow" /\ WritesBy(p) = <<High(p)>>

====
